---- MODULE Spec2Model ----
(***************************************************************************)
(* Chunked batch submission and resume protocol of llm_sentiment.          *)
(*                                                                         *)
(* One operator process runs one entry point of 02_make_indices.py at a    *)
(* time (submit all chunks, submit one chunk, resume) against              *)
(*   - the chunk request files on disk      (outputs/batch_files),         *)
(*   - the ledger file batch_info.json      (outputs/reports),             *)
(*   - the result files on disk             (outputs/batch_results),       *)
(*   - the remote batch service             (jobs and their statuses).     *)
(* Every remote call is a step of its own and may raise; the process may   *)
(* be killed between any two steps.                                        *)
(***************************************************************************)
EXTENDS Integers, Sequences, FiniteSets, TLC

\* ---- bounds of the model ----
NChunks == 2
MaxJobs == 3
MaxFaults == 1
MaxCrashes == 1
MaxTimeout == 2
MaxDocs == 3
MaxCeiling == 3
MaxPlans == 2
MaxFiles == 2
MaxLines == 2
MaxIds == 2

Chunks == 1..NChunks

VARIABLES
    chunkFiles,   \* chunk numbers whose chunkNN_input.jsonl exists on disk
    ledgerFile,   \* batch_info.json on disk: [exists, meta, entries]
    results,      \* chunk -> job whose output is in chunkNN_results.jsonl (0: no file)
    jobs,         \* the remote service: chunk -> statuses of the jobs created for it
    merged,       \* the merged table written by process_results (NoTable before)
    op,           \* entry point being run: idle, submit_all, single, resume
    pc,           \* position inside the entry point
    ctx,          \* which submission loop / caller the shared steps run for
    batch_info,   \* the in-memory ledger dictionary (batch_info / updated_info)
    todo,         \* remaining items of the loop being run; Head(todo) is the current one
    i,            \* enumerate() index of the current loop item
    batch_id,     \* local batch_id of the current item (0: not set)
    submit_only,  \* operator's answer to "submit without waiting"
    last_status,  \* monitor_batch's last_status
    fresh,        \* chunks whose live status was learned in the current status sweep
    qfail,        \* chunks whose status query raised in the current status sweep
    orphans,      \* resume: none / declined / accepted (answer to the orphan offer)
    after,        \* resubmission called from the failed-only branch (re-check follows)
    quotaHit,     \* a job creation was rejected for quota in the current submission sweep
    chain,        \* chunk -> job ids recorded under its key since its last fresh entry
    faults,       \* remote calls that raised so far
    crashes,      \* process kills so far
    ledgerWritten, \* the last step wrote the ledger file (save_json / _save_batch_info)
    \* -- a status-polling loop run on its own (see "status-polling loops") --
    poll,         \* polling loop being run: idle, monitor_batch, wait_for_completion, ...
    pollPc,       \* position inside the loop: top, sleep
    safe_mode,    \* the wait_for_completion flag of wait_for_completion_or_processing
    timeout,      \* the timeout argument, in units of the check interval
    elapsed,      \* time since start_time, in units of the check interval
    remote,       \* [status, total]: the polled job at the remote service
    poll_last,    \* last_status of the loop
    returned,     \* how the last loop returned: none, status, timeout
    \* -- the planner run on its own (see "planner") --
    docs,         \* speeches_df: the ordered documents, each [id, len] (len of its request)
    ceiling,      \* config chunking.max_tokens_per_chunk
    planPc,       \* position inside create_chunked_batch_files: idle, pack, write
    planRun,      \* number of planner runs started so far
    all_requests, \* requests not yet packed, each [id, tokens]
    chunks,       \* the chunks closed so far
    current_chunk,
    current_tokens,
    planFiles,    \* chunk file index -> requests in chunkNN_input.jsonl (<<>>: no file)
    batch_files,  \* the file list returned by the last finished run
    total_input_tokens,
    planResults,  \* per finished run: [files, batch_files, total] (disk and return value)
    \* -- process_results run on its own (see "merge and validate") --
    result_files, \* the chunkNN_results.jsonl files on disk, sorted: each a sequence of lines
    speeches_df,  \* the speeches table: a sequence of speech_ids
    mergePc,      \* idle, parse, combine, save, validate, build, done, raised
    all_results,  \* combine_chunk_results: the tables parsed so far
    lines,        \* parse_results: lines of the current file not yet read
    parsed_rows,  \* parse_results: its local list results
    custom_id,    \* parse_results: its local custom_id (0: not bound yet)
    combined_results,   \* the table combine_chunk_results returned
    results_csv,        \* [written, rows]: sentiment_results_*.csv
    validation_results, \* the validator's report
    index_input,        \* [built, rows]: the table handed to IndexBuilder.build_indices
    \* -- the validator called on one record (see "validator") --
    output,       \* the parsed LLM output handed to validate_single_output
    verdict,      \* [by, is_valid, errors]: what the validator returned (by = "none": not run)
    batch_outputs, \* the outputs of the rows handed to validate_batch_results
    report        \* [by, r]: the validation_results it returned (by = "none": not run)

vars == <<chunkFiles, ledgerFile, results, jobs, merged, op, pc, ctx, batch_info,
          todo, i, batch_id, submit_only, last_status, fresh, qfail, orphans,
          after, quotaHit, chain, faults, crashes, ledgerWritten>>

pollVars == <<poll, pollPc, safe_mode, timeout, elapsed, remote, poll_last, returned>>

planVars == <<docs, ceiling, planPc, planRun, all_requests, chunks, current_chunk,
              current_tokens, planFiles, batch_files, total_input_tokens, planResults>>

mergeVars == <<result_files, speeches_df, mergePc, all_results, lines, parsed_rows,
               custom_id, combined_results, results_csv, validation_results,
               index_input>>

validatorVars == <<output, verdict, batch_outputs, report>>

allVars == <<vars, pollVars, planVars, mergeVars, validatorVars>>

\* What the steps of one component leave alone.
nonProtocolVars == <<pollVars, planVars, mergeVars, validatorVars>>

nonPollVars == <<vars, planVars, mergeVars, validatorVars>>

nonPlanVars == <<vars, pollVars, mergeVars, validatorVars>>

nonMergeVars == <<vars, pollVars, planVars, validatorVars>>

nonValidatorVars == <<vars, pollVars, planVars, mergeVars>>

locals == <<op, pc, ctx, batch_info, todo, i, batch_id, submit_only, last_status,
            fresh, qfail, orphans, after, quotaHit>>

\* ---- data ----

\* Job ids are opaque strings handed out by the remote service; the model names
\* the k-th job created from a chunk's request file k, so that a job is the pair
\* (chunk, k) and a ledger entry of the chunk stores k.
\* A ledger entry. batch_id = 0, chunk_number = 0, prev = 0 stand for an absent key.
NoEntry == [status |-> "absent", batch_id |-> 0, prev |-> 0, chunk_number |-> 0,
            output_file |-> FALSE, resubmit_error |-> FALSE]

EmptyInfo == [meta |-> "none", entries |-> [c \in Chunks |-> NoEntry]]

NoTable == [c \in Chunks |-> -1]

RECURSIVE SortedSeq(_)
SortedSeq(S) ==
    IF S = {} THEN <<>>
    ELSE LET m == CHOOSE x \in S : \A y \in S : x <= y
         IN  <<m>> \o SortedSeq(S \ {m})

Range(seq) == {seq[n] : n \in 1..Len(seq)}

Tracked(bi) == {c \in Chunks : bi.entries[c].status # "absent"}

\* ---- the remote service ----
TerminalStatuses == {"completed", "failed", "expired", "cancelled"}

\* "failed" stands for the terminal non-success statuses (failed, expired,
\* cancelled), which every status list of the code treats alike.
RemoteSucc(s) ==
    CASE s = "validating"  -> {"in_progress", "failed"}
      [] s = "in_progress" -> {"completed", "failed"}
      [] OTHER             -> {}

RECURSIVE SumLen(_, _)
SumLen(f, S) ==
    IF S = {} THEN 0
    ELSE LET c == CHOOSE x \in S : TRUE
         IN  Len(f[c]) + SumLen(f, S \ {c})

TotalJobs == SumLen(jobs, Chunks)

\* The model stops tracking the status of a job that neither a ledger entry
\* (on disk or in memory) nor the running process refers to any more: nothing
\* queries such a job again.
Untrack(js, lf, bi, cur, id) ==
    [c \in Chunks |->
        [k \in 1..Len(js[c]) |->
            IF \/ lf.entries[c].batch_id = k
               \/ bi.entries[c].batch_id = k
               \/ (cur = c /\ id = k)
            THEN js[c][k] ELSE "untracked"]]

\* ---- status lists of the code ----
SkipStatuses == {"completed", "in_progress"}

CompletedStatuses_WithFailed == {"completed", "failed"}

CompletedStatuses == {"completed"}

InProgressStatuses == {"validating", "in_progress", "finalizing"}

FailedStatuses_WithActive == {"failed", "expired", "cancelled", "in_progress"}

FailedStatuses == {"failed", "expired", "cancelled"}

\* ---- ledger entries written by the code ----
SubmittedEntry(n, id) ==
    [status |-> "submitted", batch_id |-> id, prev |-> 0, chunk_number |-> n,
     output_file |-> FALSE, resubmit_error |-> FALSE]

OrphanEntry(chunk_num, id) ==
    [status |-> "submitted", batch_id |-> id, prev |-> 0, chunk_number |-> chunk_num,
     output_file |-> FALSE, resubmit_error |-> FALSE]

SingleEntry(chunk_num, id) ==
    [status |-> "submitted", batch_id |-> id, prev |-> 0, chunk_number |-> chunk_num,
     output_file |-> FALSE, resubmit_error |-> FALSE]

ResubmitEntry_DropsPrevious(original_info, n, id) ==
    [status |-> "submitted", batch_id |-> id, prev |-> 0,
     chunk_number |-> IF original_info.chunk_number # 0
                      THEN original_info.chunk_number ELSE n,
     output_file |-> FALSE, resubmit_error |-> FALSE]

ResubmitEntry_LoopIndex(original_info, n, id) ==
    [status |-> "submitted", batch_id |-> id, prev |-> original_info.batch_id,
     chunk_number |-> n, output_file |-> FALSE, resubmit_error |-> FALSE]

ResubmitEntry(original_info, n, id) ==
    [status |-> "submitted", batch_id |-> id, prev |-> original_info.batch_id,
     chunk_number |-> IF original_info.chunk_number # 0
                      THEN original_info.chunk_number ELSE n,
     output_file |-> FALSE, resubmit_error |-> FALSE]

ErrorEntry == [NoEntry EXCEPT !.status = "error"]

OrphanErrorEntry_NotRecorded(chunk_num) == NoEntry

OrphanErrorEntry(chunk_num) ==
    [NoEntry EXCEPT !.status = "error", !.chunk_number = chunk_num]

ResubmitError(info) == [info EXCEPT !.resubmit_error = TRUE]

SweepMerge(info, status) == [info EXCEPT !.status = status]

SweepOnError_MarksError(info) == [info EXCEPT !.status = "error"]

SweepOnError(info) == info

\* ---- the ledger file ----
save_json(bi) == [exists |-> TRUE, meta |-> bi.meta, entries |-> bi.entries]

load_json == [meta |-> ledgerFile.meta, entries |-> ledgerFile.entries]

LoadExisting_StartsEmpty == EmptyInfo

LoadExisting == IF ledgerFile.exists THEN load_json ELSE EmptyInfo

MissingFiles(files, bi) == {f \in files : f \notin Tracked(bi)}

Bucket(bi, statuses) == {c \in Tracked(bi) : bi.entries[c].status \in statuses}

\* ---- initial state: nothing planned, nothing submitted ----
ProtocolInit ==
    /\ chunkFiles = {}
    /\ ledgerFile = [exists |-> FALSE, meta |-> "none",
                     entries |-> [c \in Chunks |-> NoEntry]]
    /\ results = [c \in Chunks |-> 0]
    /\ jobs = [c \in Chunks |-> <<>>]
    /\ merged = NoTable
    /\ op = "idle" /\ pc = "idle" /\ ctx = "none"
    /\ batch_info = EmptyInfo
    /\ todo = <<>> /\ i = 0 /\ batch_id = 0
    /\ submit_only = FALSE /\ last_status = "none"
    /\ fresh = {} /\ qfail = {} /\ orphans = "none" /\ after = FALSE
    /\ quotaHit = FALSE
    /\ chain = [c \in Chunks |-> <<>>]
    /\ faults = 0 /\ crashes = 0
    /\ ledgerWritten = FALSE

PollInit ==
    /\ poll = "idle" /\ pollPc = "top" /\ safe_mode = FALSE
    /\ timeout = 1 /\ elapsed = 0
    /\ remote = [status |-> "validating", total |-> 0]
    /\ poll_last = "none" /\ returned = "none"

\* The planner before its first run; the documents and the ceiling are its inputs.
PlanIdle ==
    /\ planPc = "idle" /\ planRun = 0
    /\ all_requests = <<>> /\ chunks = <<>>
    /\ current_chunk = <<>> /\ current_tokens = 0
    /\ planFiles = [k \in 1..MaxDocs |-> <<>>]
    /\ batch_files = <<>> /\ total_input_tokens = 0
    /\ planResults = <<>>

NoReport ==
    [total_speeches |-> 0, valid_speeches |-> 0, invalid_speeches |-> 0,
     error_summary |-> <<>>]

MergeIdle ==
    /\ mergePc = "idle"
    /\ all_results = <<>> /\ lines = <<>> /\ parsed_rows = <<>> /\ custom_id = 0
    /\ combined_results = <<>>
    /\ results_csv = [written |-> FALSE, rows |-> <<>>]
    /\ validation_results = NoReport
    /\ index_input = [built |-> FALSE, rows |-> <<>>]

\* A component that is not run: idle, with empty inputs.
PlanOff == PlanIdle /\ docs = <<>> /\ ceiling = 1

MergeOff == MergeIdle /\ result_files = <<>> /\ speeches_df = <<>>

NoVerdict == [by |-> "none", is_valid |-> FALSE, errors |-> <<>>]

ReportOff == batch_outputs = <<>> /\ report = [by |-> "none", r |-> NoReport]

ValidatorOff == output = <<>> /\ verdict = NoVerdict /\ ReportOff

Init ==
    /\ ProtocolInit
    /\ PollInit
    /\ PlanOff
    /\ MergeOff
    /\ ValidatorOff

\* The process is gone (return, uncaught exception or kill): only the disk and
\* the remote service remain.
Exit ==
    /\ op' = "idle" /\ pc' = "idle" /\ ctx' = "none"
    /\ batch_info' = EmptyInfo
    /\ todo' = <<>> /\ i' = 0 /\ batch_id' = 0
    /\ submit_only' = FALSE /\ last_status' = "none"
    /\ fresh' = {} /\ qfail' = {} /\ orphans' = "none" /\ after' = FALSE
    /\ quotaHit' = FALSE

\* Next item of the submission loop being run.
Continue ==
    /\ pc' = "loop" /\ todo' = Tail(todo) /\ i' = i + 1
    /\ batch_id' = 0 /\ last_status' = "none"

CanFault == faults < MaxFaults

\* ---- exception handlers of the three submission loops ----
HandlerEntry(context, chunk_num, info) ==
    CASE context = "all"      -> ErrorEntry
      [] context = "orphan"   -> OrphanErrorEntry(chunk_num)
      [] context = "resubmit" -> ResubmitError(info)

\* A remote call of the current step raises. Inside a submission loop the
\* except-block rewrites the chunk's entry, saves and goes on with the next
\* item; elsewhere the exception is not caught and the process ends.
Raise(quota) ==
    /\ CanFault
    /\ faults' = faults + 1
    /\ IF ctx \in {"all", "orphan", "resubmit"}
       THEN /\ batch_info' = [batch_info EXCEPT !.entries[Head(todo)] =
                                 HandlerEntry(ctx, Head(todo), @)]
            /\ ledgerFile' = save_json(batch_info')
            /\ chain' = [chain EXCEPT ![Head(todo)] =
                            IF ctx = "resubmit" THEN @ ELSE <<>>]
            /\ quotaHit' = (quotaHit \/ quota)
            /\ ledgerWritten' = TRUE
            /\ Continue
            /\ UNCHANGED <<op, ctx, submit_only, fresh, qfail, orphans, after>>
       ELSE /\ Exit
            /\ ledgerWritten' = FALSE
            /\ UNCHANGED <<ledgerFile, chain>>
    /\ jobs' = Untrack(jobs, ledgerFile', batch_info', 0, 0)
    /\ UNCHANGED <<chunkFiles, results, merged, crashes>>
    /\ UNCHANGED nonProtocolVars

\* ---- submit_all_chunks / process_all_chunks ----
PlanOnly ==
    /\ op = "idle"
    /\ chunkFiles' = Chunks
    /\ UNCHANGED <<ledgerFile, results, jobs, merged, locals, chain, faults, crashes>>
    /\ ledgerWritten' = FALSE
    /\ UNCHANGED nonProtocolVars

StartSubmitAll ==
    /\ op = "idle"
    /\ chunkFiles' = Chunks
    /\ op' = "submit_all" /\ pc' = "pa_init" /\ ctx' = "all"
    /\ todo' = SortedSeq(Chunks) /\ i' = 1
    /\ submit_only' \in BOOLEAN
    /\ UNCHANGED <<ledgerFile, results, jobs, merged, batch_info, batch_id,
                   last_status, fresh, qfail, orphans, after, quotaHit, chain,
                   faults, crashes>>
    /\ ledgerWritten' = FALSE
    /\ UNCHANGED nonProtocolVars

PaInit ==
    /\ pc = "pa_init"
    /\ batch_info' = [LoadExisting EXCEPT !.meta = "submitting"]
    /\ ledgerFile' = save_json(batch_info')
    /\ pc' = "loop"
    /\ UNCHANGED <<chunkFiles, results, jobs, merged, op, ctx, todo, i, batch_id,
                   submit_only, last_status, fresh, qfail, orphans, after,
                   quotaHit, chain, faults, crashes>>
    /\ ledgerWritten' = TRUE
    /\ UNCHANGED nonProtocolVars

LoopSkip ==
    /\ pc = "loop" /\ todo # <<>> /\ ctx = "all"
    /\ batch_info.entries[Head(todo)].status \in SkipStatuses
    /\ Continue
    /\ UNCHANGED <<chunkFiles, ledgerFile, results, jobs, merged, op, ctx,
                   batch_info, submit_only, fresh, qfail, orphans, after,
                   quotaHit, chain, faults, crashes>>
    /\ ledgerWritten' = FALSE
    /\ UNCHANGED nonProtocolVars

\* ---- submit_batch ----
\* The item is not skipped: submit_batch uploads its request file.
Upload ==
    /\ pc = "loop" /\ todo # <<>>
    /\ ~(ctx = "all" /\ batch_info.entries[Head(todo)].status \in SkipStatuses)
    /\ pc' = "create"
    /\ UNCHANGED <<chunkFiles, ledgerFile, results, jobs, merged, op, ctx,
                   batch_info, todo, i, batch_id, submit_only, last_status, fresh,
                   qfail, orphans, after, quotaHit, chain, faults, crashes>>
    /\ ledgerWritten' = FALSE
    /\ UNCHANGED nonProtocolVars

UploadFails ==
    /\ pc = "loop" /\ todo # <<>>
    /\ ~(ctx = "all" /\ batch_info.entries[Head(todo)].status \in SkipStatuses)
    /\ Raise(FALSE)

Create ==
    /\ pc = "create"
    /\ TotalJobs < MaxJobs
    /\ jobs' = [jobs EXCEPT ![Head(todo)] = Append(@, "validating")]
    /\ batch_id' = Len(jobs[Head(todo)]) + 1
    /\ pc' = IF ctx = "single" THEN "single_save" ELSE "details"
    /\ UNCHANGED <<chunkFiles, ledgerFile, results, merged, op, ctx, batch_info,
                   todo, i, submit_only, last_status, fresh, qfail, orphans,
                   after, quotaHit, chain, faults, crashes>>
    /\ ledgerWritten' = FALSE
    /\ UNCHANGED nonProtocolVars

CreateFails == pc = "create" /\ \E quota \in BOOLEAN : Raise(quota)

\* ---- body of a submission loop after submit_batch ----
NewEntry(context, original_info, n, chunk_num, id) ==
    CASE context = "all"      -> SubmittedEntry(n, id)
      [] context = "orphan"   -> OrphanEntry(chunk_num, id)
      [] context = "resubmit" -> ResubmitEntry(original_info, n, id)

Details ==
    /\ pc = "details"
    /\ batch_info' = [batch_info EXCEPT !.entries[Head(todo)] =
                         NewEntry(ctx, @, i, Head(todo), batch_id)]
    /\ ledgerFile' = save_json(batch_info')
    /\ chain' = [chain EXCEPT ![Head(todo)] =
                    IF ctx = "resubmit" THEN Append(@, batch_id) ELSE <<batch_id>>]
    /\ IF submit_only
       THEN Continue
       ELSE pc' = "monitor" /\ UNCHANGED <<todo, i, batch_id, last_status>>
    /\ jobs' = Untrack(jobs, ledgerFile', batch_info', 0, 0)
    /\ UNCHANGED <<chunkFiles, results, merged, op, ctx, submit_only, fresh,
                   qfail, orphans, after, quotaHit, faults, crashes>>
    /\ ledgerWritten' = TRUE
    /\ UNCHANGED nonProtocolVars

DetailsFails == pc = "details" /\ Raise(FALSE)

\* ---- monitor_batch with the update_status callback, and the lines after it ----
Monitor_SavesAtTheEndOnly ==
    /\ pc = "monitor"
    /\ LET status == jobs[Head(todo)][batch_id]
           c == Head(todo)
       IN  /\ IF status \in TerminalStatuses
              THEN /\ batch_info' = [batch_info EXCEPT !.entries[c].status = status]
                   /\ ledgerFile' = save_json(batch_info')
                   /\ ledgerWritten' = TRUE
              ELSE /\ ledgerWritten' = FALSE
                   /\ UNCHANGED <<batch_info, ledgerFile>>
           /\ IF status = "completed"
              THEN pc' = "dl_retrieve" /\ UNCHANGED <<todo, i, batch_id, last_status>>
              ELSE IF status \in TerminalStatuses
              THEN Continue
              ELSE last_status' = status /\ UNCHANGED <<pc, todo, i, batch_id>>
    /\ UNCHANGED <<chunkFiles, results, jobs, merged, op, ctx, submit_only, fresh,
                   qfail, orphans, after, quotaHit, chain, faults, crashes>>
    /\ UNCHANGED nonProtocolVars

Monitor_UntilProcessingStarts ==
    /\ pc = "monitor"
    /\ LET status == jobs[Head(todo)][batch_id]
           c == Head(todo)
       IN  /\ IF status # last_status \/ status \in TerminalStatuses
              THEN /\ batch_info' = [batch_info EXCEPT !.entries[c].status = status]
                   /\ ledgerFile' = save_json(batch_info')
                   /\ ledgerWritten' = TRUE
              ELSE /\ ledgerWritten' = FALSE
                   /\ UNCHANGED <<batch_info, ledgerFile>>
           /\ IF status = "completed"
              THEN pc' = "dl_retrieve" /\ UNCHANGED <<todo, i, batch_id, last_status>>
              ELSE IF status # "validating"
              THEN Continue
              ELSE last_status' = status /\ UNCHANGED <<pc, todo, i, batch_id>>
    /\ UNCHANGED <<chunkFiles, results, jobs, merged, op, ctx, submit_only, fresh,
                   qfail, orphans, after, quotaHit, chain, faults, crashes>>
    /\ UNCHANGED nonProtocolVars

Monitor ==
    /\ pc = "monitor"
    /\ LET status == jobs[Head(todo)][batch_id]
           c == Head(todo)
       IN  /\ IF status # last_status \/ status \in TerminalStatuses
              THEN /\ batch_info' = [batch_info EXCEPT !.entries[c].status = status]
                   /\ ledgerFile' = save_json(batch_info')
                   /\ ledgerWritten' = TRUE
              ELSE /\ ledgerWritten' = FALSE
                   /\ UNCHANGED <<batch_info, ledgerFile>>
           /\ IF status = "completed"
              THEN pc' = "dl_retrieve" /\ UNCHANGED <<todo, i, batch_id, last_status>>
              ELSE IF status \in TerminalStatuses
              THEN Continue
              ELSE last_status' = status /\ UNCHANGED <<pc, todo, i, batch_id>>
    /\ UNCHANGED <<chunkFiles, results, jobs, merged, op, ctx, submit_only, fresh,
                   qfail, orphans, after, quotaHit, chain, faults, crashes>>
    /\ UNCHANGED nonProtocolVars

MonitorFails == pc = "monitor" /\ Raise(FALSE)

\* ---- download_results ----
DlRetrieve ==
    /\ pc = "dl_retrieve"
    /\ jobs[Head(todo)][batch_id] = "completed"
    /\ pc' = "dl_content"
    /\ UNCHANGED <<chunkFiles, ledgerFile, results, jobs, merged, op, ctx,
                   batch_info, todo, i, batch_id, submit_only, last_status, fresh,
                   qfail, orphans, after, quotaHit, chain, faults, crashes>>
    /\ ledgerWritten' = FALSE
    /\ UNCHANGED nonProtocolVars

DlRetrieveFails == pc = "dl_retrieve" /\ Raise(FALSE)

DlContent ==
    /\ pc = "dl_content"
    /\ results' = [results EXCEPT ![Head(todo)] = batch_id]
    /\ IF ctx = "sweep"
       THEN /\ batch_info' = [batch_info EXCEPT !.entries[Head(todo)].output_file = TRUE]
            /\ pc' = "r_dl" /\ todo' = Tail(todo) /\ batch_id' = 0
       ELSE /\ pc' = "dl_record"
            /\ UNCHANGED <<batch_info, todo, batch_id>>
    /\ UNCHANGED <<chunkFiles, ledgerFile, jobs, merged, op, ctx, i, submit_only,
                   last_status, fresh, qfail, orphans, after, quotaHit, chain,
                   faults, crashes>>
    /\ ledgerWritten' = FALSE
    /\ UNCHANGED nonProtocolVars

DlContentFails == pc = "dl_content" /\ Raise(FALSE)

DlRecord ==
    /\ pc = "dl_record"
    /\ batch_info' = [batch_info EXCEPT !.entries[Head(todo)].output_file = TRUE]
    /\ ledgerFile' = save_json(batch_info')
    /\ Continue
    /\ UNCHANGED <<chunkFiles, results, jobs, merged, op, ctx, submit_only, fresh,
                   qfail, orphans, after, quotaHit, chain, faults, crashes>>
    /\ ledgerWritten' = TRUE
    /\ UNCHANGED nonProtocolVars

\* ---- leaving a submission loop ----
StartSweep(bi) ==
    /\ batch_info' = bi
    /\ ctx' = "sweep" /\ pc' = "sweep"
    /\ todo' = SortedSeq(Tracked(bi)) /\ i' = 0 /\ batch_id' = 0
    /\ submit_only' = FALSE /\ last_status' = "none"
    /\ fresh' = {} /\ qfail' = {} /\ quotaHit' = FALSE

LoopExit ==
    /\ pc = "loop" /\ todo = <<>>
    /\ CASE ctx = "all" ->
              /\ pc' = "pa_final"
              /\ UNCHANGED <<ctx, batch_info, todo, i, batch_id, submit_only,
                             last_status, fresh, qfail, orphans, after, quotaHit>>
         [] ctx = "orphan" ->
              /\ StartSweep(load_json)
              /\ UNCHANGED <<orphans, after>>
         [] ctx = "resubmit" ->
              /\ pc' = "rs_save"
              /\ UNCHANGED <<ctx, batch_info, todo, i, batch_id, submit_only,
                             last_status, fresh, qfail, orphans, after, quotaHit>>
    /\ UNCHANGED <<chunkFiles, ledgerFile, results, jobs, merged, op, chain,
                   faults, crashes>>
    /\ ledgerWritten' = FALSE
    /\ UNCHANGED nonProtocolVars

PaFinal ==
    /\ pc = "pa_final"
    /\ ledgerFile' = save_json([batch_info EXCEPT !.meta = "completed"])
    /\ IF submit_only
       THEN Exit
       ELSE /\ pc' = "process_results"
            /\ batch_info' = [batch_info EXCEPT !.meta = "completed"]
            /\ UNCHANGED <<op, ctx, todo, i, batch_id, submit_only, last_status,
                           fresh, qfail, orphans, after, quotaHit>>
    /\ UNCHANGED <<chunkFiles, results, jobs, merged, chain, faults, crashes>>
    /\ ledgerWritten' = TRUE
    /\ UNCHANGED nonProtocolVars

\* ---- process_results: combine_chunk_results over every result file on disk ----
combine_chunk_results_SkipsLast == [results EXCEPT ![NChunks] = 0]

combine_chunk_results == results

ProcessResults ==
    /\ pc = "process_results"
    /\ merged' = IF \A c \in Chunks : results[c] = 0
                 THEN merged
                 ELSE combine_chunk_results
    /\ Exit
    /\ UNCHANGED <<chunkFiles, ledgerFile, results, jobs, chain, faults, crashes>>
    /\ ledgerWritten' = FALSE
    /\ UNCHANGED nonProtocolVars

\* ---- submit_single_chunk ----
StartSingle ==
    /\ op = "idle"
    /\ chunkFiles' = Chunks
    /\ \E chunk_num \in Chunks :
         /\ todo' = <<chunk_num>> /\ i' = chunk_num
    /\ op' = "single" /\ pc' = "loop" /\ ctx' = "single"
    /\ UNCHANGED <<ledgerFile, results, jobs, merged, batch_info, batch_id,
                   submit_only, last_status, fresh, qfail, orphans, after,
                   quotaHit, chain, faults, crashes>>
    /\ ledgerWritten' = FALSE
    /\ UNCHANGED nonProtocolVars

SingleSave ==
    /\ pc = "single_save"
    /\ ledgerFile' = save_json([LoadExisting EXCEPT !.entries[Head(todo)] =
                                   SingleEntry(i, batch_id)])
    /\ chain' = [chain EXCEPT ![Head(todo)] = <<batch_id>>]
    /\ Exit
    /\ jobs' = Untrack(jobs, ledgerFile', batch_info', 0, 0)
    /\ UNCHANGED <<chunkFiles, results, merged, faults, crashes>>
    /\ ledgerWritten' = TRUE
    /\ UNCHANGED nonProtocolVars

\* ---- resume_workflow ----
\* No ledger file: resume prints its hints and returns (two steps, so that the
\* invocation is a visible state).
ResumeNoLedger ==
    /\ op = "idle"
    /\ ~ledgerFile.exists
    /\ op' = "resume" /\ pc' = "no_ledger"
    /\ UNCHANGED <<chunkFiles, ledgerFile, results, jobs, merged, ctx, batch_info,
                   todo, i, batch_id, submit_only, last_status, fresh, qfail,
                   orphans, after, quotaHit, chain, faults, crashes>>
    /\ ledgerWritten' = FALSE
    /\ UNCHANGED nonProtocolVars

ResumeNoLedgerReturn ==
    /\ pc = "no_ledger"
    /\ Exit
    /\ UNCHANGED <<chunkFiles, ledgerFile, results, jobs, merged, chain, faults,
                   crashes>>
    /\ ledgerWritten' = FALSE
    /\ UNCHANGED nonProtocolVars

StartResume ==
    /\ op = "idle"
    /\ ledgerFile.exists
    /\ op' = "resume"
    /\ LET missing_files == MissingFiles(chunkFiles, load_json)
       IN  IF missing_files = {}
           THEN StartSweep(load_json) /\ orphans' = "none"
           ELSE \/ StartSweep(load_json) /\ orphans' = "declined"
                \/ /\ orphans' = "accepted"
                   /\ batch_info' = load_json
                   /\ ctx' = "orphan" /\ pc' = "loop"
                   /\ todo' = SortedSeq(missing_files) /\ i' = 1
                   /\ submit_only' \in BOOLEAN
                   /\ UNCHANGED <<batch_id, last_status, fresh, qfail, quotaHit>>
    /\ UNCHANGED <<chunkFiles, ledgerFile, results, jobs, merged, after, chain,
                   faults, crashes>>
    /\ ledgerWritten' = FALSE
    /\ UNCHANGED nonProtocolVars

SweepQuery ==
    /\ pc = "sweep" /\ todo # <<>>
    /\ batch_info.entries[Head(todo)].batch_id # 0
    /\ batch_info' = [batch_info EXCEPT !.entries[Head(todo)] =
                         SweepMerge(@, jobs[Head(todo)][@.batch_id])]
    /\ fresh' = fresh \cup {Head(todo)}
    /\ todo' = Tail(todo)
    /\ UNCHANGED <<chunkFiles, ledgerFile, results, jobs, merged, op, pc, ctx, i,
                   batch_id, submit_only, last_status, qfail, orphans, after,
                   quotaHit, chain, faults, crashes>>
    /\ ledgerWritten' = FALSE
    /\ UNCHANGED nonProtocolVars

SweepQueryFails ==
    /\ pc = "sweep" /\ todo # <<>>
    /\ batch_info.entries[Head(todo)].batch_id # 0
    /\ CanFault
    /\ faults' = faults + 1
    /\ batch_info' = [batch_info EXCEPT !.entries[Head(todo)] = SweepOnError(@)]
    /\ qfail' = qfail \cup {Head(todo)}
    /\ todo' = Tail(todo)
    /\ UNCHANGED <<chunkFiles, ledgerFile, results, jobs, merged, op, pc, ctx, i,
                   batch_id, submit_only, last_status, fresh, orphans, after,
                   quotaHit, chain, crashes>>
    /\ ledgerWritten' = FALSE
    /\ UNCHANGED nonProtocolVars

\* info["batch_id"] of an entry written by an except-block: KeyError, not caught.
SweepKeyError ==
    /\ pc = "sweep" /\ todo # <<>>
    /\ batch_info.entries[Head(todo)].batch_id = 0
    /\ Exit
    /\ UNCHANGED <<chunkFiles, ledgerFile, results, jobs, merged, chain, faults,
                   crashes>>
    /\ ledgerWritten' = FALSE
    /\ UNCHANGED nonProtocolVars

SweepDone ==
    /\ pc = "sweep" /\ todo = <<>>
    /\ pc' = "r_dl"
    /\ todo' = SortedSeq(Bucket(batch_info, CompletedStatuses))
    /\ UNCHANGED <<chunkFiles, ledgerFile, results, jobs, merged, op, ctx,
                   batch_info, i, batch_id, submit_only, last_status, fresh, qfail,
                   orphans, after, quotaHit, chain, faults, crashes>>
    /\ ledgerWritten' = FALSE
    /\ UNCHANGED nonProtocolVars

\* "Download completed": one completed chunk of the list.
RDl_AlwaysDownloads ==
    /\ pc = "r_dl" /\ todo # <<>>
    /\ LET c == Head(todo)
           info == batch_info.entries[c]
       IN  IF info.output_file
           THEN todo' = Tail(todo) /\ UNCHANGED <<pc, batch_info, batch_id>>
           ELSE /\ pc' = "dl_retrieve" /\ batch_id' = info.batch_id
                /\ UNCHANGED <<batch_info, todo>>
    /\ UNCHANGED <<chunkFiles, ledgerFile, results, jobs, merged, op, ctx, i,
                   submit_only, last_status, fresh, qfail, orphans, after,
                   quotaHit, chain, faults, crashes>>
    /\ ledgerWritten' = FALSE
    /\ UNCHANGED nonProtocolVars

RDl ==
    /\ pc = "r_dl" /\ todo # <<>>
    /\ LET c == Head(todo)
           info == batch_info.entries[c]
       IN  IF info.output_file
           THEN todo' = Tail(todo) /\ UNCHANGED <<pc, batch_info, batch_id>>
           ELSE IF results[c] # 0
           THEN /\ batch_info' = [batch_info EXCEPT !.entries[c].output_file = TRUE]
                /\ todo' = Tail(todo)
                /\ UNCHANGED <<pc, batch_id>>
           ELSE /\ pc' = "dl_retrieve" /\ batch_id' = info.batch_id
                /\ UNCHANGED <<batch_info, todo>>
    /\ UNCHANGED <<chunkFiles, ledgerFile, results, jobs, merged, op, ctx, i,
                   submit_only, last_status, fresh, qfail, orphans, after,
                   quotaHit, chain, faults, crashes>>
    /\ ledgerWritten' = FALSE
    /\ UNCHANGED nonProtocolVars

RSave ==
    /\ pc = "r_dl" /\ todo = <<>>
    /\ ledgerFile' = save_json(batch_info)
    /\ pc' = "r_decide"
    /\ UNCHANGED <<chunkFiles, results, jobs, merged, op, ctx, batch_info, todo, i,
                   batch_id, submit_only, last_status, fresh, qfail, orphans,
                   after, quotaHit, chain, faults, crashes>>
    /\ ledgerWritten' = TRUE
    /\ UNCHANGED nonProtocolVars

StartResubmit_AllChunks(failed_chunks, recheck) ==
    /\ chunkFiles' = IF failed_chunks \subseteq chunkFiles THEN chunkFiles ELSE Chunks
    /\ ctx' = "resubmit" /\ pc' = "loop"
    /\ todo' = SortedSeq(Tracked(batch_info)) /\ i' = 1
    /\ submit_only' \in BOOLEAN
    /\ after' = recheck
    /\ UNCHANGED <<op, batch_info, batch_id, last_status, fresh, qfail, orphans,
                   quotaHit>>

StartResubmit(failed_chunks, recheck) ==
    /\ chunkFiles' = IF failed_chunks \subseteq chunkFiles THEN chunkFiles ELSE Chunks
    /\ ctx' = "resubmit" /\ pc' = "loop"
    /\ todo' = SortedSeq(failed_chunks) /\ i' = 1
    /\ submit_only' \in BOOLEAN
    /\ after' = recheck
    /\ UNCHANGED <<op, batch_info, batch_id, last_status, fresh, qfail, orphans,
                   quotaHit>>

ToProcessResults ==
    /\ pc' = "process_results"
    /\ UNCHANGED <<chunkFiles, op, ctx, batch_info, todo, i, batch_id, submit_only,
                   last_status, fresh, qfail, orphans, after, quotaHit>>

RDecide ==
    /\ pc = "r_decide"
    /\ LET completed == Bucket(batch_info, CompletedStatuses)
           in_progress == Bucket(batch_info, InProgressStatuses)
           failed == Bucket(batch_info, FailedStatuses)
           total_batches == Cardinality(Tracked(batch_info))
       IN  IF Cardinality(completed) = total_batches
           THEN ToProcessResults \/ (Exit /\ UNCHANGED chunkFiles)
           ELSE IF failed # {} /\ in_progress = {}
           THEN StartResubmit(failed, TRUE) \/ (Exit /\ UNCHANGED chunkFiles)
           ELSE IF in_progress # {} /\ failed # {}
           THEN StartResubmit(failed, FALSE) \/ (Exit /\ UNCHANGED chunkFiles)
           ELSE Exit /\ UNCHANGED chunkFiles
    /\ UNCHANGED <<ledgerFile, results, jobs, merged, chain, faults, crashes>>
    /\ ledgerWritten' = FALSE
    /\ UNCHANGED nonProtocolVars

\* After resubmit_failed_batches returned: save, and in the failed-only branch
\* look at the statuses again.
RsSave ==
    /\ pc = "rs_save"
    /\ ledgerFile' = save_json(batch_info)
    /\ IF after /\ Bucket(batch_info, CompletedStatuses) = Tracked(batch_info)
       THEN ToProcessResults \/ (Exit /\ UNCHANGED chunkFiles)
       ELSE Exit /\ UNCHANGED chunkFiles
    /\ UNCHANGED <<results, jobs, merged, chain, faults, crashes>>
    /\ ledgerWritten' = TRUE
    /\ UNCHANGED nonProtocolVars

\* ---- environment ----
\* The process is killed (Ctrl+C, power loss) between two steps.
Crash ==
    /\ op # "idle"
    /\ crashes < MaxCrashes
    /\ crashes' = crashes + 1
    /\ Exit
    /\ jobs' = Untrack(jobs, ledgerFile, batch_info', 0, 0)
    /\ UNCHANGED <<chunkFiles, ledgerFile, results, merged, chain, faults>>
    /\ ledgerWritten' = FALSE
    /\ UNCHANGED nonProtocolVars

\* The remote service moves a job along its lifecycle.
RemoteAdvance ==
    \E c \in Chunks : \E k \in 1..Len(jobs[c]) : \E s \in RemoteSucc(jobs[c][k]) :
        /\ jobs' = [jobs EXCEPT ![c][k] = s]
        /\ UNCHANGED <<chunkFiles, ledgerFile, results, merged, locals, chain,
                       faults, crashes>>
        /\ ledgerWritten' = FALSE
        /\ UNCHANGED nonProtocolVars

Next ==
    \/ PlanOnly \/ StartSubmitAll \/ PaInit
    \/ LoopSkip \/ LoopExit
    \/ Upload \/ UploadFails \/ Create \/ CreateFails
    \/ Details \/ DetailsFails \/ Monitor \/ MonitorFails
    \/ DlRetrieve \/ DlRetrieveFails \/ DlContent \/ DlContentFails \/ DlRecord
    \/ PaFinal \/ ProcessResults
    \/ StartSingle \/ SingleSave
    \/ ResumeNoLedger \/ ResumeNoLedgerReturn \/ StartResume
    \/ SweepQuery \/ SweepQueryFails \/ SweepKeyError \/ SweepDone
    \/ RDl \/ RSave \/ RDecide \/ RsSave
    \/ Crash \/ RemoteAdvance

Spec == Init /\ [][Next]_allVars

\* ---- runs against a deterministic fake Job Client ----
\* The fake client never raises, moves every job validating -> in_progress and
\* then to a scripted outcome: the first job of the last chunk fails, every
\* other job completes. The operator plans and submits once in waiting mode,
\* resumes only after a kill, and accepts every offer resume makes. The process
\* is killed only at a persisted checkpoint.
FakeOutcome(c, k) == IF c = NChunks /\ k = 1 THEN "failed" ELSE "completed"

\* The ledger file holds everything the process did so far: memory and disk
\* agree, the job of the current item is recorded, no result file is unrecorded.
AtCheckpoint ==
    /\ ledgerFile.exists
    /\ save_json(batch_info) = ledgerFile
    /\ batch_id # 0 => ledgerFile.entries[Head(todo)].batch_id = batch_id
    /\ pc # "dl_record"

FakeRun ==
    /\ faults' = faults
    /\ crashes' # crashes => AtCheckpoint
    /\ \A c \in Chunks : \A k \in 1..Len(jobs[c]) :
          (jobs'[c][k] # jobs[c][k] /\ jobs'[c][k] # "untracked")
          => jobs'[c][k] = IF jobs[c][k] = "validating"
                           THEN "in_progress" ELSE FakeOutcome(c, k)
    /\ (op = "idle" /\ op' = "idle") => UNCHANGED chunkFiles
    /\ (op = "idle" /\ op' # "idle")
       => IF ledgerFile.exists
          THEN op' = "resume" /\ crashes > 0
          ELSE op' = "submit_all" /\ ~submit_only'
    /\ orphans' # "declined"
    /\ (pc = "r_decide" /\ op' = "idle" /\ crashes' = crashes)
       => /\ Bucket(batch_info, FailedStatuses) = {}
          /\ Bucket(batch_info, CompletedStatuses) # Tracked(batch_info)
    /\ (pc = "rs_save" /\ op' = "idle" /\ crashes' = crashes)
       => ~(after /\ Bucket(batch_info, CompletedStatuses) = Tracked(batch_info))

NextFake == Next /\ FakeRun

SpecFake == Init /\ [][NextFake]_allVars

\* The end-to-end scenario: the same fake client, nothing kills the process,
\* and the operator comes back with --resume while the ledger shows a chunk
\* that is not completed, accepting every offer.
E2ERun ==
    /\ faults' = faults
    /\ crashes' = crashes
    /\ \A c \in Chunks : \A k \in 1..Len(jobs[c]) :
          (jobs'[c][k] # jobs[c][k] /\ jobs'[c][k] # "untracked")
          => jobs'[c][k] = IF jobs[c][k] = "validating"
                           THEN "in_progress" ELSE FakeOutcome(c, k)
    /\ (op = "idle" /\ op' = "idle") => UNCHANGED chunkFiles
    /\ (op = "idle" /\ op' # "idle")
       => IF ledgerFile.exists
          THEN op' = "resume" /\ Bucket(ledgerFile, CompletedStatuses) # Chunks
          ELSE op' = "submit_all" /\ ~submit_only'
    /\ orphans' # "declined"
    /\ (pc = "r_decide" /\ op' = "idle")
       => /\ Bucket(batch_info, FailedStatuses) = {}
          /\ Bucket(batch_info, CompletedStatuses) # Tracked(batch_info)
    /\ (pc = "rs_save" /\ op' = "idle")
       => ~(after /\ Bucket(batch_info, CompletedStatuses) = Tracked(batch_info))

NextE2E == Next /\ E2ERun

SpecE2E == Init /\ [][NextE2E]_allVars

\* Progress runs: the operator plans and submits once, in either mode, and
\* then re-invokes --resume as long as it takes, accepting every offer; remote
\* calls may raise during the submit run only; nothing kills the process and
\* the service completes every job it accepted.
ProgressRun ==
    /\ faults' # faults => op = "submit_all"
    /\ crashes' = crashes
    /\ \A c \in Chunks : \A k \in 1..Len(jobs[c]) :
          jobs'[c][k] \in {jobs[c][k], "in_progress", "completed", "untracked"}
    /\ (op = "idle" /\ op' = "idle") => UNCHANGED chunkFiles
    /\ (op = "idle" /\ op' # "idle")
       => IF ledgerFile.exists THEN op' = "resume" ELSE op' = "submit_all"
    /\ orphans' # "declined"
    /\ (pc = "r_decide" /\ op' = "idle")
       => /\ Bucket(batch_info, FailedStatuses) = {}
          /\ Bucket(batch_info, CompletedStatuses) # Tracked(batch_info)
    /\ (pc = "rs_save" /\ op' = "idle")
       => ~(after /\ Bucket(batch_info, CompletedStatuses) = Tracked(batch_info))

\* The process and the service keep going.
SpecProgress ==
    /\ Init
    /\ [][Next /\ ProgressRun]_allVars
    /\ WF_vars(Next /\ ProgressRun)
    /\ WF_vars(RemoteAdvance /\ ProgressRun)

\* ---- status-polling loops ----
\* One polling loop at a time watches one remote job. Time is counted in check
\* intervals; a sleep takes one. The loops that read the clock compare it with
\* a timeout of at most MaxTimeout, so the clock may stop counting beyond that.
PollLoops == {"monitor_batch", "wait_for_completion",
              "wait_for_completion_or_processing"}

TimedLoops == {"wait_for_completion", "wait_for_completion_or_processing"}

MaxElapsed == MaxTimeout + 2

PollSucc(s) ==
    CASE s = "validating"  -> {"in_progress", "failed"}
      [] s = "in_progress" -> {"finalizing", "failed", "expired", "cancelled"}
      [] s = "finalizing"  -> {"completed"}
      [] OTHER             -> {}

\* The status tests after which each loop returns to its caller.
PollReturns(loop, safe, job) ==
    CASE loop = "monitor_batch"       -> job.status \in TerminalStatuses
      [] loop = "wait_for_completion" -> job.status \in TerminalStatuses
      [] loop = "wait_for_completion_or_processing" ->
            IF safe
            THEN job.status \in TerminalStatuses
            ELSE \/ (job.status # "validating" /\ job.total > 0)
                 \/ job.status \in TerminalStatuses

PollStart ==
    /\ poll = "idle"
    /\ \E loop \in PollLoops, safe \in BOOLEAN, t \in 1..MaxTimeout :
         /\ safe => loop = "wait_for_completion_or_processing"
         /\ poll' = loop /\ safe_mode' = safe /\ timeout' = t
    /\ pollPc' = "top" /\ elapsed' = 0 /\ poll_last' = "none" /\ returned' = "none"
    /\ remote' = [status |-> "validating", total |-> 0]
    /\ UNCHANGED nonPollVars

\* "if elapsed > timeout: break" at the top of the two loops that have one.
PollTimeout ==
    /\ poll \in TimedLoops /\ pollPc = "top"
    /\ elapsed > timeout
    /\ poll' = "idle" /\ returned' = "timeout"
    /\ UNCHANGED <<pollPc, safe_mode, timeout, elapsed, remote, poll_last>>
    /\ UNCHANGED nonPollVars

\* One status query and the tests on its answer.
PollQuery ==
    /\ poll # "idle" /\ pollPc = "top"
    /\ ~(poll \in TimedLoops /\ elapsed > timeout)
    /\ poll_last' = remote.status
    /\ IF PollReturns(poll, safe_mode, remote)
       THEN poll' = "idle" /\ returned' = "status" /\ UNCHANGED pollPc
       ELSE pollPc' = "sleep" /\ UNCHANGED <<poll, returned>>
    /\ UNCHANGED <<safe_mode, timeout, elapsed, remote>>
    /\ UNCHANGED nonPollVars

\* time.sleep(check_interval)
PollSleep ==
    /\ poll # "idle" /\ pollPc = "sleep"
    /\ elapsed' = IF elapsed < MaxElapsed THEN elapsed + 1 ELSE elapsed
    /\ pollPc' = "top"
    /\ UNCHANGED <<poll, safe_mode, timeout, remote, poll_last, returned>>
    /\ UNCHANGED nonPollVars

\* The remote service moves the polled job along; it may also never do so.
PollRemoteAdvance ==
    /\ poll # "idle"
    /\ \E s \in PollSucc(remote.status), n \in {remote.total, 1} :
         remote' = [status |-> s, total |-> n]
    /\ UNCHANGED <<poll, pollPc, safe_mode, timeout, elapsed, poll_last, returned>>
    /\ UNCHANGED nonPollVars

NextPoll ==
    \/ PollStart \/ PollTimeout \/ PollQuery \/ PollSleep \/ PollRemoteAdvance

\* The polling process keeps running; the remote service promises nothing.
SpecPoll ==
    /\ Init /\ [][NextPoll]_allVars
    /\ WF_pollVars(PollTimeout) /\ WF_pollVars(PollQuery) /\ WF_pollVars(PollSleep)

\* ---- planner: create_chunked_batch_files (split_batch.py packs the same way) ----
\* A document is [id, len]: its speech_id and the length of its encoded request.
ReqLens == {4, 7, 8, 13}

Doc == [id : 1..MaxDocs, len : ReqLens]

DocSeqs ==
    {d \in UNION {[1..n -> Doc] : n \in 0..MaxDocs} :
        \A a, b \in DOMAIN d : a # b => d[a].id # d[b].id}

estimate_tokens(len) == len \div 4

\* "Build all requests first and estimate tokens"
BuildRequests(speeches) ==
    [k \in 1..Len(speeches) |->
        [id |-> speeches[k].id, tokens |-> estimate_tokens(speeches[k].len)]]

RECURSIVE SumTokens(_)
SumTokens(chunk) ==
    IF chunk = <<>> THEN 0 ELSE Head(chunk).tokens + SumTokens(Tail(chunk))

ClosesChunk_IgnoresSum(cur_tokens, request_tokens, max, cur_chunk) ==
    request_tokens > max /\ cur_chunk # <<>>

ClosesChunk_AtCeiling(cur_tokens, request_tokens, max, cur_chunk) ==
    cur_tokens + request_tokens >= max /\ cur_chunk # <<>>

\* "If adding this request would exceed limit, start new chunk"
ClosesChunk(cur_tokens, request_tokens, max, cur_chunk) ==
    cur_tokens + request_tokens > max /\ cur_chunk # <<>>

OpenChunk_Empty(req_info) == <<>>

OpenChunk(req_info) == <<req_info>>

WriteFile_Append(old, chunk) == old \o chunk

\* open(chunk_file, 'w') and one line per request
WriteFile(old, chunk) == chunk

InitPlan ==
    /\ ProtocolInit
    /\ PollInit
    /\ PlanIdle /\ docs \in DocSeqs /\ ceiling \in 1..MaxCeiling
    /\ MergeOff
    /\ ValidatorOff

PlanStart ==
    /\ planPc = "idle" /\ planRun < MaxPlans
    /\ planRun' = planRun + 1
    /\ all_requests' = BuildRequests(docs)
    /\ chunks' = <<>> /\ current_chunk' = <<>> /\ current_tokens' = 0
    /\ batch_files' = <<>> /\ total_input_tokens' = 0
    /\ planPc' = "pack"
    /\ UNCHANGED <<docs, ceiling, planFiles, planResults>>
    /\ UNCHANGED nonPlanVars

PackStep ==
    /\ planPc = "pack" /\ all_requests # <<>>
    /\ LET req_info == Head(all_requests)
           request_tokens == req_info.tokens
       IN  IF ClosesChunk(current_tokens, request_tokens, ceiling, current_chunk)
           THEN /\ chunks' = Append(chunks, current_chunk)
                /\ current_chunk' = OpenChunk(req_info)
                /\ current_tokens' = request_tokens
           ELSE /\ current_chunk' = Append(current_chunk, req_info)
                /\ current_tokens' = current_tokens + request_tokens
                /\ UNCHANGED chunks
    /\ all_requests' = Tail(all_requests)
    /\ UNCHANGED <<docs, ceiling, planPc, planRun, planFiles, batch_files,
                   total_input_tokens, planResults>>
    /\ UNCHANGED nonPlanVars

PackFinal_AlwaysAppends ==
    /\ planPc = "pack" /\ all_requests = <<>>
    /\ chunks' = Append(chunks, current_chunk)
    /\ planPc' = "write"
    /\ UNCHANGED <<docs, ceiling, planRun, all_requests, current_chunk,
                   current_tokens, planFiles, batch_files, total_input_tokens,
                   planResults>>
    /\ UNCHANGED nonPlanVars

\* "Add final chunk"
PackFinal ==
    /\ planPc = "pack" /\ all_requests = <<>>
    /\ chunks' = IF current_chunk # <<>> THEN Append(chunks, current_chunk) ELSE chunks
    /\ planPc' = "write"
    /\ UNCHANGED <<docs, ceiling, planRun, all_requests, current_chunk,
                   current_tokens, planFiles, batch_files, total_input_tokens,
                   planResults>>
    /\ UNCHANGED nonPlanVars

\* "Write chunks to files": one iteration of enumerate(chunks, 1)
WriteChunk ==
    /\ planPc = "write" /\ Len(batch_files) < Len(chunks)
    /\ LET chunk_idx == Len(batch_files) + 1
           chunk == chunks[chunk_idx]
       IN  /\ planFiles' = [planFiles EXCEPT ![chunk_idx] = WriteFile(@, chunk)]
           /\ total_input_tokens' = total_input_tokens + SumTokens(chunk)
           /\ batch_files' = Append(batch_files, chunk_idx)
    /\ UNCHANGED <<docs, ceiling, planPc, planRun, all_requests, chunks,
                   current_chunk, current_tokens, planResults>>
    /\ UNCHANGED nonPlanVars

PlanReturn ==
    /\ planPc = "write" /\ Len(batch_files) = Len(chunks)
    /\ planResults' = Append(planResults,
                             [files |-> planFiles, batch_files |-> batch_files,
                              total |-> total_input_tokens])
    /\ planPc' = "idle"
    /\ UNCHANGED <<docs, ceiling, planRun, all_requests, chunks, current_chunk,
                   current_tokens, planFiles, batch_files, total_input_tokens>>
    /\ UNCHANGED nonPlanVars

\* The lines of a chunk that are on disk when the process dies inside
\* "with open(chunk_file, 'w')": the file was emptied by the open, and the
\* lines not yet flushed are lost.
KilledWhileWriting(chunk) == {SubSeq(chunk, 1, n) : n \in 0..(Len(chunk) - 1)}

\* The process is killed inside create_chunked_batch_files: its memory is gone,
\* the files stay as they are, the one being written included.
PlanKill ==
    /\ planPc # "idle"
    /\ planPc' = "idle"
    /\ all_requests' = <<>> /\ chunks' = <<>>
    /\ current_chunk' = <<>> /\ current_tokens' = 0
    /\ batch_files' = <<>> /\ total_input_tokens' = 0
    /\ IF planPc = "write" /\ Len(batch_files) < Len(chunks)
       THEN \/ UNCHANGED planFiles
            \/ \E partial \in KilledWhileWriting(chunks[Len(batch_files) + 1]) :
                  planFiles' = [planFiles EXCEPT ![Len(batch_files) + 1] = partial]
       ELSE UNCHANGED planFiles
    /\ UNCHANGED <<docs, ceiling, planRun, planResults>>
    /\ UNCHANGED nonPlanVars

NextPlan ==
    PlanStart \/ PackStep \/ PackFinal \/ WriteChunk \/ PlanReturn \/ PlanKill

SpecPlan == InitPlan /\ [][NextPlan]_allVars

\* The planner on any speeches_df: neither create_batch_request nor the loop
\* that calls it looks at the speech_ids of the other rows.
AnyDocSeqs == UNION {[1..n -> Doc] : n \in 0..MaxDocs}

InitEncode ==
    /\ ProtocolInit
    /\ PollInit
    /\ PlanIdle /\ docs \in AnyDocSeqs /\ ceiling \in 1..MaxCeiling
    /\ MergeOff
    /\ ValidatorOff

SpecEncode == InitEncode /\ [][NextPlan]_allVars

\* ---- validator: validate_single_output ----
\* The validator of central_bank_sentiment ("central") and the one of the
\* phase scripts under src/src ("phase"). An output is a dictionary:
\*   keys: the top-level keys it has; a score is [numeric, v];
\*   topics and market_impact are dictionaries (functions on the keys they have);
\*   key_sentences is the length of the list.
required_fields ==
    <<"hawkish_dovish_score", "topics", "uncertainty", "forward_guidance_strength",
      "key_sentences", "market_impact", "summary">>

required_topic_fields ==
    <<"inflation", "growth", "financial_stability", "labor_market", "international">>

required_market_fields == <<"stocks", "bonds", "currency", "reasoning">>

valid_market_values == {"rise", "fall", "neutral"}

Number(n) == [numeric |-> TRUE, v |-> n]

NotANumber == [numeric |-> FALSE, v |-> 0]

RECURSIVE Flatten(_)
Flatten(lists) ==
    IF lists = <<>> THEN <<>> ELSE Head(lists) \o Flatten(Tail(lists))

OutOfRange_Never(v, lo, hi) == v < lo /\ v > hi

\* "x < lo or x > hi"
OutOfRange(v, lo, hi) == v < lo \/ v > hi

ScoreErrors(score, lo, hi, not_numeric, out_of_range) ==
    IF ~score.numeric THEN <<not_numeric>>
    ELSE IF OutOfRange(score.v, lo, hi) THEN <<out_of_range>>
    ELSE <<>>

MissingFieldErrors(out) ==
    Flatten([k \in 1..Len(required_fields) |->
                IF required_fields[k] \in out.keys
                THEN <<>> ELSE <<"Missing required field">>])

TopicErrors(topics) ==
    Flatten([k \in 1..Len(required_topic_fields) |->
                LET topic_field == required_topic_fields[k]
                IN  IF topic_field \notin DOMAIN topics
                    THEN <<"Missing topic field">>
                    ELSE ScoreErrors(topics[topic_field], 0, 100,
                                     "Topic must be numeric", "Topic out of range")])

MarketValueErrors(market_impact) ==
    Flatten([k \in 1..3 |->
                LET field == required_market_fields[k]
                IN  IF field \in DOMAIN market_impact
                       /\ market_impact[field] \notin valid_market_values
                    THEN <<"market_impact value must be one of">>
                    ELSE <<>>])

MarketMissingErrors(market_impact) ==
    Flatten([k \in 1..Len(required_market_fields) |->
                IF required_market_fields[k] \in DOMAIN market_impact
                THEN <<>> ELSE <<"Missing market_impact field">>])

Result(errors) == [is_valid |-> errors = <<>>, errors |-> errors]

\* central_bank_sentiment/output_validator.py
validate_single_output(out) ==
    IF MissingFieldErrors(out) # <<>>
    THEN [is_valid |-> FALSE, errors |-> MissingFieldErrors(out)]
    ELSE Result(
           ScoreErrors(out.hawkish_dovish_score, -100, 100,
                       "hawkish_dovish_score must be numeric",
                       "hawkish_dovish_score out of range")
        \o TopicErrors(out.topics)
        \o ScoreErrors(out.uncertainty, 0, 100,
                       "uncertainty must be numeric", "uncertainty out of range")
        \o ScoreErrors(out.forward_guidance_strength, 0, 100,
                       "forward_guidance_strength must be numeric",
                       "forward_guidance_strength out of range")
        \o MarketValueErrors(out.market_impact))

\* src/src/output_validator.py: the same tests, and key_sentences, the
\* market_impact keys and the summary besides.
validate_single_output_phase(out) ==
    IF MissingFieldErrors(out) # <<>>
    THEN [is_valid |-> FALSE, errors |-> MissingFieldErrors(out)]
    ELSE Result(
           ScoreErrors(out.hawkish_dovish_score, -100, 100,
                       "hawkish_dovish_score must be numeric",
                       "hawkish_dovish_score out of range")
        \o TopicErrors(out.topics)
        \o ScoreErrors(out.uncertainty, 0, 100,
                       "uncertainty must be numeric", "uncertainty out of range")
        \o ScoreErrors(out.forward_guidance_strength, 0, 100,
                       "forward_guidance_strength must be numeric",
                       "forward_guidance_strength out of range")
        \o (IF out.key_sentences = 0 THEN <<"key_sentences is empty">> ELSE <<>>)
        \o MarketMissingErrors(out.market_impact)
        \o MarketValueErrors(out.market_impact)
        \o (IF out.summary = "" THEN <<"summary is empty">> ELSE <<>>))

\* A record that is complete and in range.
GoodTopics == [f \in Range(required_topic_fields) |-> Number(50)]

GoodMarket ==
    [f \in Range(required_market_fields) |->
        CASE f = "stocks" -> "rise" [] f = "bonds" -> "fall"
          [] f = "currency" -> "neutral" [] OTHER -> "text"]

GoodOutput ==
    [keys |-> Range(required_fields),
     hawkish_dovish_score |-> Number(50), topics |-> GoodTopics,
     uncertainty |-> Number(0), forward_guidance_strength |-> Number(100),
     key_sentences |-> 2, market_impact |-> GoodMarket, summary |-> "text"]

\* The outputs the validator is run on.
MarketDicts ==
    {[f \in D |-> IF f = "stocks" THEN st ELSE IF f = "bonds" THEN bo
                  ELSE IF f = "currency" THEN cu ELSE "text"] :
        D \in {Range(required_market_fields),
               Range(required_market_fields) \ {"stocks"},
               Range(required_market_fields) \ {"reasoning"}},
        st \in {"rise", "up"}, bo \in {"fall", "down"}, cu \in {"neutral", "flat"}}

TopicDicts ==
    {GoodTopics,
     [GoodTopics EXCEPT !["inflation"] = Number(101)],
     [f \in Range(required_topic_fields) \ {"international"} |-> Number(50)]}

Outputs ==
    [keys : {Range(required_fields),
             Range(required_fields) \ {"hawkish_dovish_score"},
             Range(required_fields) \ {"market_impact"}},
     hawkish_dovish_score : {Number(n) : n \in {-101, -100, 0, 100, 150}}
                            \cup {NotANumber},
     topics : TopicDicts,
     uncertainty : {Number(0), Number(101)},
     forward_guidance_strength : {Number(100), Number(-1)},
     key_sentences : {0, 2},
     market_impact : MarketDicts,
     summary : {"", "text"}]

InitValidator ==
    /\ ProtocolInit
    /\ PollInit
    /\ PlanOff
    /\ MergeOff
    /\ output \in Outputs /\ verdict = NoVerdict
    /\ ReportOff

ValidateCentral ==
    /\ verdict.by = "none"
    /\ verdict' = [by |-> "central",
                   is_valid |-> validate_single_output(output).is_valid,
                   errors |-> validate_single_output(output).errors]
    /\ UNCHANGED <<output, batch_outputs, report>>
    /\ UNCHANGED nonValidatorVars

ValidatePhase ==
    /\ verdict.by = "none"
    /\ verdict' = [by |-> "phase",
                   is_valid |-> validate_single_output_phase(output).is_valid,
                   errors |-> validate_single_output_phase(output).errors]
    /\ UNCHANGED <<output, batch_outputs, report>>
    /\ UNCHANGED nonValidatorVars

NextValidator == ValidateCentral \/ ValidatePhase

SpecValidator == InitValidator /\ [][NextValidator]_allVars

\* ---- validator: validate_batch_results ----
Tally_Overwrites(summary, error_type) ==
    IF error_type \in DOMAIN summary
    THEN [summary EXCEPT ![error_type] = 1]
    ELSE summary @@ (error_type :> 1)

\* "Count error types": one pass of the inner loop
Tally(summary, error_type) ==
    IF error_type \in DOMAIN summary
    THEN [summary EXCEPT ![error_type] = @ + 1]
    ELSE summary @@ (error_type :> 1)

\* error.split(':')[0]: the error strings of the model are that first part
RECURSIVE CountErrorTypes(_, _)
CountErrorTypes(errors, summary) ==
    IF errors = <<>> THEN summary
    ELSE CountErrorTypes(Tail(errors), Tally(summary, Head(errors)))

\* The loop over the rows, on what validate_single_output returned for each.
RECURSIVE ReportLoop(_, _)
ReportLoop(verdicts, acc) ==
    IF verdicts = <<>> THEN acc
    ELSE ReportLoop(Tail(verdicts),
            IF Head(verdicts).is_valid
            THEN [acc EXCEPT !.valid_speeches = @ + 1]
            ELSE [acc EXCEPT
                     !.invalid_speeches = @ + 1,
                     !.error_summary = CountErrorTypes(Head(verdicts).errors, @)])

BatchReport(verdicts) ==
    ReportLoop(verdicts, [NoReport EXCEPT !.total_speeches = Len(verdicts)])

\* The outputs reconstructed from rows: every key is there, a missing cell is
\* a value that is no number and no market word.
MaxRows == 3

SampleOutputs ==
    {GoodOutput,
     [GoodOutput EXCEPT !.hawkish_dovish_score = Number(150)],
     [GoodOutput EXCEPT !.hawkish_dovish_score = NotANumber,
                        !.uncertainty = Number(101)],
     [GoodOutput EXCEPT !.topics = [GoodTopics EXCEPT !["inflation"] = Number(101),
                                                      !["growth"] = Number(101)]],
     [GoodOutput EXCEPT !.market_impact = [GoodMarket EXCEPT !["stocks"] = "up",
                                                             !["bonds"] = "none"]],
     [GoodOutput EXCEPT !.key_sentences = 0, !.summary = ""]}

InitReport ==
    /\ ProtocolInit
    /\ PollInit
    /\ PlanOff
    /\ MergeOff
    /\ output = <<>> /\ verdict = NoVerdict
    /\ batch_outputs \in UNION {[1..n -> SampleOutputs] : n \in 0..MaxRows}
    /\ report = [by |-> "none", r |-> NoReport]

ReportCentral ==
    /\ report.by = "none"
    /\ report' = [by |-> "central",
                  r |-> BatchReport([k \in 1..Len(batch_outputs) |->
                                        validate_single_output(batch_outputs[k])])]
    /\ UNCHANGED <<output, verdict, batch_outputs>>
    /\ UNCHANGED nonValidatorVars

ReportPhase ==
    /\ report.by = "none"
    /\ report' = [by |-> "phase",
                  r |-> BatchReport([k \in 1..Len(batch_outputs) |->
                                        validate_single_output_phase(batch_outputs[k])])]
    /\ UNCHANGED <<output, verdict, batch_outputs>>
    /\ UNCHANGED nonValidatorVars

NextReport == ReportCentral \/ ReportPhase

SpecReport == InitReport /\ [][NextReport]_allVars

\* ---- merge and validate: process_results ----
\* A line of a result file is
\*   ok:      a successful response whose content parses into all fields,
\*   failed:  a parseable line with a custom_id whose response has no usable
\*            content (request marked failed, content not JSON, field missing),
\*   garbage: a line that is not JSON or has no custom_id.
SpeechIds == 1..MaxIds

ResultLine ==
    [kind : {"ok"}, id : SpeechIds, hawkish_dovish_score : {50, 150}]
    \cup [kind : {"failed"}, id : SpeechIds, hawkish_dovish_score : {0}]
    \cup [kind : {"garbage"}, id : {0}, hawkish_dovish_score : {0}]

SeqsUpTo(S, n) == UNION {[1..k -> S] : k \in 0..n}

InitMerge ==
    /\ ProtocolInit
    /\ PollInit
    /\ PlanOff
    /\ ValidatorOff
    /\ MergeIdle
    /\ result_files \in SeqsUpTo(SeqsUpTo(ResultLine, MaxLines), MaxFiles)
    /\ speeches_df \in SeqsUpTo(SpeechIds, MaxIds) \ {<<>>}

\* The flattened row parse_results builds from an ok line.
Row(line) == [speech_id |-> line.id, hawkish_dovish_score |-> line.hawkish_dovish_score]

RECURSIVE Concat(_)
Concat(tables) ==
    IF tables = <<>> THEN <<>> ELSE Head(tables) \o Concat(Tail(tables))

RECURSIVE RowsOf(_, _)
RowsOf(table, id) ==
    IF table = <<>> THEN <<>>
    ELSE (IF Head(table).speech_id = id THEN <<Head(table)>> ELSE <<>>)
         \o RowsOf(Tail(table), id)

\* speeches_df.merge(combined, on='speech_id', how='inner'): for every row of
\* the speeches table, in order, every row of combined with its speech_id.
RECURSIVE InnerMerge(_, _)
InnerMerge(speeches, combined) ==
    IF speeches = <<>> THEN <<>>
    ELSE RowsOf(combined, Head(speeches)) \o InnerMerge(Tail(speeches), combined)

\* "Reconstruct output dict from DataFrame columns": every key is there; of
\* the columns only the score varies in these runs.
RowOutput(row) ==
    [GoodOutput EXCEPT !.hawkish_dovish_score = Number(row.hawkish_dovish_score)]

\* validate_batch_results of central_bank_sentiment on the rows of a table
validate_batch_results(results_df) ==
    BatchReport([k \in 1..Len(results_df) |->
                    validate_single_output(RowOutput(results_df[k]))])

MergeRaise ==
    /\ mergePc' = "raised"
    /\ UNCHANGED <<result_files, speeches_df, all_results, lines, parsed_rows,
                   custom_id, combined_results, results_csv, validation_results,
                   index_input>>

\* process_results calls combine_chunk_results, which globs the result files
\* and starts parse_results on the first one.
MergeStart ==
    /\ mergePc = "idle"
    /\ IF result_files = <<>>
       THEN MergeRaise
       ELSE /\ mergePc' = "parse"
            /\ lines' = result_files[1] /\ parsed_rows' = <<>> /\ custom_id' = 0
            /\ UNCHANGED <<result_files, speeches_df, all_results, combined_results,
                           results_csv, validation_results, index_input>>
    /\ UNCHANGED nonMergeVars

\* parse_results: one line of the file. The except-block prints custom_id,
\* which is not bound when no line of this file has got as far as binding it.
ParseLine ==
    /\ mergePc = "parse" /\ lines # <<>>
    /\ LET line == Head(lines)
       IN  CASE line.kind = "ok" ->
                  /\ custom_id' = line.id
                  /\ parsed_rows' = Append(parsed_rows, Row(line))
                  /\ lines' = Tail(lines)
                  /\ UNCHANGED mergePc
             [] line.kind = "failed" ->
                  /\ custom_id' = line.id
                  /\ lines' = Tail(lines)
                  /\ UNCHANGED <<mergePc, parsed_rows>>
             [] line.kind = "garbage" ->
                  IF custom_id = 0
                  THEN mergePc' = "raised" /\ UNCHANGED <<lines, parsed_rows, custom_id>>
                  ELSE lines' = Tail(lines) /\ UNCHANGED <<mergePc, parsed_rows, custom_id>>
    /\ UNCHANGED <<result_files, speeches_df, all_results, combined_results,
                   results_csv, validation_results, index_input>>
    /\ UNCHANGED nonMergeVars

\* parse_results returns its table; combine_chunk_results goes on with the next file.
ParseReturn ==
    /\ mergePc = "parse" /\ lines = <<>>
    /\ all_results' = Append(all_results, parsed_rows)
    /\ IF Len(all_results') < Len(result_files)
       THEN /\ lines' = result_files[Len(all_results') + 1]
            /\ parsed_rows' = <<>> /\ custom_id' = 0
            /\ UNCHANGED mergePc
       ELSE /\ mergePc' = "combine"
            /\ UNCHANGED <<lines, parsed_rows, custom_id>>
    /\ UNCHANGED <<result_files, speeches_df, combined_results, results_csv,
                   validation_results, index_input>>
    /\ UNCHANGED nonMergeVars

\* pd.concat and the merge with the speeches table. With no row at all the
\* concatenated frame has no speech_id column and the merge raises KeyError.
Combine ==
    /\ mergePc = "combine"
    /\ LET combined == Concat(all_results)
       IN  IF combined = <<>>
           THEN MergeRaise
           ELSE /\ combined_results' = InnerMerge(speeches_df, combined)
                /\ mergePc' = "save"
                /\ UNCHANGED <<result_files, speeches_df, all_results, lines,
                               parsed_rows, custom_id, results_csv,
                               validation_results, index_input>>
    /\ UNCHANGED nonMergeVars

SaveCsv ==
    /\ mergePc = "save"
    /\ results_csv' = [written |-> TRUE, rows |-> combined_results]
    /\ mergePc' = "validate"
    /\ UNCHANGED <<result_files, speeches_df, all_results, lines, parsed_rows,
                   custom_id, combined_results, validation_results, index_input>>
    /\ UNCHANGED nonMergeVars

Validate ==
    /\ mergePc = "validate"
    /\ validation_results' = validate_batch_results(combined_results)
    /\ mergePc' = "build"
    /\ UNCHANGED <<result_files, speeches_df, all_results, lines, parsed_rows,
                   custom_id, combined_results, results_csv, index_input>>
    /\ UNCHANGED nonMergeVars

BuildIndices ==
    /\ mergePc = "build"
    /\ index_input' = [built |-> TRUE, rows |-> combined_results]
    /\ mergePc' = "done"
    /\ UNCHANGED <<result_files, speeches_df, all_results, lines, parsed_rows,
                   custom_id, combined_results, results_csv, validation_results>>
    /\ UNCHANGED nonMergeVars

NextMerge ==
    \/ MergeStart \/ ParseLine \/ ParseReturn \/ Combine \/ SaveCsv \/ Validate
    \/ BuildIndices

SpecMerge == InitMerge /\ [][NextMerge]_allVars

\* ======================= claims =======================

InSubmission == ctx \in {"all", "orphan", "resubmit", "single"}

\* C1 (as claimed): in every submission path, once the job of the current chunk
\* has been created, the ledger file records its id under the chunk's key before
\* the process issues its next remote call (job details, status poll, download).
C1_JobRecordedBeforeNextRemoteCall ==
    (InSubmission /\ batch_id # 0
        /\ pc \in {"details", "monitor", "dl_retrieve", "dl_content"})
    => ledgerFile.entries[Head(todo)].batch_id = batch_id

\* C2 (as claimed): during the status sweep of resume, whenever the next status
\* query is about to be issued, the ledger file already holds the fresh status of
\* every chunk queried so far in this sweep.
C2_SweepPersistsEachStatus ==
    (op = "resume" /\ pc = "sweep" /\ todo # <<>>)
    => \A c \in fresh : ledgerFile.entries[c].status = batch_info.entries[c].status

MergedChunks == {c \in Chunks : merged[c] > 0}

\* The table an uninterrupted plan+submit run against the fake client ends with.
UninterruptedTable == {c \in Chunks : FakeOutcome(c, 1) = "completed"}

UninterruptedRunMerges ==
    (crashes = 0 /\ merged # NoTable) => MergedChunks = UninterruptedTable

\* C3 (as claimed): against the deterministic fake client, every merged table,
\* also the one produced by resume after the process was killed, holds the rows
\* of the same chunks as the table of the uninterrupted run.
C3_ResumeReproducesUninterruptedTable ==
    (merged # NoTable) => MergedChunks = UninterruptedTable

\* C4: whenever resume is about to create a remote job for a chunk, the chunk is
\* either an orphan (no ledger entry, offer accepted) or its ledger status is
\* failed, expired or cancelled; never completed, submitted or active.
C4_ResumeCreatesOnlyForOrphanOrFailed ==
    (op = "resume" /\ pc = "create")
    => \/ /\ ctx = "orphan" /\ orphans = "accepted"
          /\ ledgerFile.entries[Head(todo)].status = "absent"
       \/ /\ ctx = "resubmit"
          /\ ledgerFile.entries[Head(todo)].status \in {"failed", "expired", "cancelled"}

C4_Witness ==
    /\ op = "resume" /\ pc = "create" /\ ctx = "resubmit"
    /\ \E c \in Chunks :
         /\ c # Head(todo)
         /\ ledgerFile.entries[c].status \in {"completed", "validating", "in_progress"}

\* C5: the step of resubmit_failed_batches that records a resubmitted chunk
\* leaves the new job id as batch_id, the job id the entry held immediately
\* before as previous_batch_id, and chunk_number unchanged.
C5_ResubmitKeepsPreviousJobId ==
    [][ (pc = "details" /\ ctx = "resubmit" /\ pc' \in {"loop", "monitor"}
            /\ faults' = faults)
        => LET c == Head(todo)
           IN  /\ ledgerFile'.entries[c].batch_id = Len(jobs[c])
               /\ ledgerFile'.entries[c].batch_id # ledgerFile.entries[c].batch_id
               /\ ledgerFile'.entries[c].prev = ledgerFile.entries[c].batch_id
               /\ ledgerFile'.entries[c].prev # 0
               /\ ledgerFile'.entries[c].chunk_number = ledgerFile.entries[c].chunk_number
               /\ ledgerFile'.entries[c].chunk_number = c ]_vars

C5_Witness ==
    \E c \in Chunks :
        /\ c > 1
        /\ ledgerFile.entries[c].prev # 0
        /\ ledgerFile.entries[c].batch_id > ledgerFile.entries[c].prev
        /\ ledgerFile.entries[c].status = "submitted"

C8_SweepSurvivesTransportError ==
    [][ /\ (pc = "sweep" /\ qfail' # qfail /\ qfail' # {})
           => /\ op' = "resume" /\ pc' = "sweep"
              /\ todo' = Tail(todo)
              /\ ledgerFile' = ledgerFile
              /\ batch_info'.entries = batch_info.entries
        /\ (pc = "r_dl" /\ pc' = "r_decide")
           => /\ fresh \cup qfail = Tracked(ledgerFile)
              /\ \A c \in qfail :
                    /\ ledgerFile'.entries[c].status = ledgerFile.entries[c].status
                    /\ ledgerFile'.entries[c].batch_id = ledgerFile.entries[c].batch_id
                    /\ ledgerFile'.entries[c].prev = ledgerFile.entries[c].prev ]_vars

C8_Witness ==
    /\ op = "resume" /\ pc = "r_decide"
    /\ qfail # {} /\ fresh # {}
    /\ \E c \in qfail : \E d \in fresh : c < d

\* C9 (as claimed): after a job creation was rejected for quota, no further
\* submission (upload of a request file) is attempted in the same sweep.
C9_NoSubmissionAfterQuotaError ==
    ~(quotaHit /\ pc = "create")

\* C10: when the status sweep of resume runs, every chunk file on disk has a
\* ledger entry unless it was offered as an orphan and the operator declined.
C10_OrphansHandledBeforeSweep ==
    (op = "resume" /\ pc \in {"sweep", "r_dl", "r_decide"} /\ orphans # "declined")
    => chunkFiles \subseteq Tracked(ledgerFile)

C10_Witness ==
    /\ op = "resume" /\ pc = "sweep" /\ orphans = "accepted"
    /\ fresh = {} /\ qfail = {}
    /\ Cardinality(Tracked(ledgerFile)) = NChunks

\* C11 (as claimed): a resume invoked while no ledger file exists treats the
\* ledger as empty and goes on to the chunk files on disk: it never takes the
\* early return, and when chunk files exist they are all offered as orphans.
C11_ColdStartEnumeratesOrphans ==
    (op = "resume" /\ ~ledgerFile.exists)
    => /\ pc # "no_ledger"
       /\ chunkFiles # {} => orphans # "none"

\* C12 (as claimed): process_results is entered only when every chunk file of
\* the run has a ledger entry with status completed.
C12_MergeOnlyWhenAllCompleted ==
    pc = "process_results"
    => \A c \in chunkFiles : ledgerFile.entries[c].status = "completed"

\* The ledger file says that every chunk file is tracked, completed and
\* downloaded, and the result files are there.
AllCompletedOnDisk ==
    /\ ledgerFile.exists
    /\ chunkFiles # {}
    /\ \A c \in chunkFiles :
          /\ ledgerFile.entries[c].status = "completed"
          /\ ledgerFile.entries[c].output_file
          /\ results[c] # 0
    /\ Tracked(ledgerFile) = chunkFiles

\* C13 (as claimed): a resume that runs while the ledger file already says
\* that all chunks are completed and downloaded never writes the ledger file,
\* and a merge step re-run in that state leaves the merged table as it was.
C13_ResumeIdempotentWhenAllCompleted ==
    [][(op = "resume" /\ AllCompletedOnDisk)
        => /\ ~ledgerWritten'
           /\ (pc = "process_results" /\ merged # NoTable) => merged' = merged]_vars

\* C14 (as claimed): every status-polling loop returns control to its caller,
\* also when the remote job never reaches a terminal state.
C14_PollingLoopsReturn == (poll # "idle") ~> (poll = "idle")

\* The requests of the chunk files named by a finished run, file after file.
RECURSIVE ConcatFiles(_, _)
ConcatFiles(files, names) ==
    IF names = <<>> THEN <<>>
    ELSE files[Head(names)] \o ConcatFiles(files, Tail(names))

CustomIds(requests) == [k \in 1..Len(requests) |-> requests[k].id]

\* C15: for every finished planner run, the custom_ids of its chunk files, in
\* chunk order and line order, are the speech_ids of the documents in their
\* original order, each exactly once.
C15_ChunksReproduceDocumentOrder ==
    \A r \in 1..Len(planResults) :
        CustomIds(ConcatFiles(planResults[r].files, planResults[r].batch_files))
            = [k \in 1..Len(docs) |-> docs[k].id]

C15_Witness ==
    /\ Len(planResults) >= 1
    /\ Len(planResults[1].batch_files) >= 2
    /\ Len(docs) = MaxDocs
    /\ docs[1].id > docs[2].id

\* C16: no chunk file of a finished planner run has a token sum above the
\* ceiling, except a chunk of exactly one request that alone exceeds it.
C16_ChunksWithinCeiling ==
    \A r \in 1..Len(planResults) :
        \A k \in Range(planResults[r].batch_files) :
            LET chunk == planResults[r].files[k]
            IN  \/ SumTokens(chunk) <= ceiling
                \/ (Len(chunk) = 1 /\ chunk[1].tokens > ceiling)

C16_Witness ==
    /\ Len(planResults) >= 1
    /\ \E k \in Range(planResults[1].batch_files) :
         LET chunk == planResults[1].files[k]
         IN  Len(chunk) = 1 /\ chunk[1].tokens > ceiling
    /\ \E k \in Range(planResults[1].batch_files) :
         LET chunk == planResults[1].files[k]
         IN  Len(chunk) >= 2 /\ SumTokens(chunk) = ceiling

\* C17: every later planner run on the same documents and ceiling returns the
\* same chunk files (number, names) and total as the first, and leaves every
\* chunk file with the same requests in the same order.
C17_PlanningDeterministic ==
    \A r \in 1..Len(planResults) : planResults[r] = planResults[1]

C17_Witness ==
    /\ Len(planResults) >= 2
    /\ Len(planResults[2].batch_files) >= 2

\* The rows of the well-formed successful lines of a result file, in order.
RECURSIVE OkRows(_)
OkRows(file) ==
    IF file = <<>> THEN <<>>
    ELSE (IF Head(file).kind = "ok" THEN <<Row(Head(file))>> ELSE <<>>)
         \o OkRows(Tail(file))

\* C18 (as claimed): parse_results never raises on a malformed or failed line,
\* whatever its position, and the table it returns for a file holds exactly
\* one row for every well-formed successful line of that file.
C18_BadLinesDroppedNeverAbort ==
    /\ ~(mergePc = "raised" /\ lines # <<>>)
    /\ \A f \in 1..Len(all_results) : all_results[f] = OkRows(result_files[f])

\* C19 (as claimed): no row of the table that process_results saved, or of the
\* table it handed to index building, fails validation.
C19_InvalidRowsExcluded ==
    /\ results_csv.written
       => \A k \in 1..Len(results_csv.rows) :
             validate_single_output(RowOutput(results_csv.rows[k])).is_valid
    /\ index_input.built
       => \A k \in 1..Len(index_input.rows) :
             validate_single_output(RowOutput(index_input.rows[k])).is_valid

\* C20 (as claimed): the table combine_chunk_results returns has at most one
\* row for each speech_id.
C20_OneRowPerSpeechId ==
    mergePc \in {"save", "validate", "build", "done"}
    => \A a, b \in 1..Len(combined_results) :
          a # b => combined_results[a].speech_id # combined_results[b].speech_id

MarketValues(out) ==
    {out.market_impact[f] : f \in {"stocks", "bonds", "currency"} \cap DOMAIN out.market_impact}

ScoresOf(out) ==
    {out.uncertainty, out.forward_guidance_strength}
    \cup {out.topics[f] : f \in DOMAIN out.topics}

\* Every key is there, every score is a number, nothing is empty.
StructurallyComplete(out) ==
    /\ out.keys = Range(required_fields)
    /\ DOMAIN out.topics = Range(required_topic_fields)
    /\ DOMAIN out.market_impact = Range(required_market_fields)
    /\ out.hawkish_dovish_score.numeric
    /\ \A x \in ScoresOf(out) : x.numeric
    /\ out.key_sentences > 0 /\ out.summary # ""

AllInRange(out) ==
    /\ out.hawkish_dovish_score.v >= -100 /\ out.hawkish_dovish_score.v <= 100
    /\ \A x \in ScoresOf(out) : x.v >= 0 /\ x.v <= 100
    /\ MarketValues(out) \subseteq valid_market_values

HasDuplicates(ids) == \E a, b \in DOMAIN ids : a # b /\ ids[a] = ids[b]

\* C22: when two documents of the batch have the same speech_id the encoder
\* produces no request record, and no chunk file of a planner run holds two
\* records with the same custom_id.
C22_DuplicateIdsRejected ==
    /\ HasDuplicates(CustomIds(docs)) => all_requests = <<>> /\ planResults = <<>>
    /\ \A r \in 1..Len(planResults) :
          \A k \in Range(planResults[r].batch_files) :
              ~HasDuplicates(CustomIds(planResults[r].files[k]))

\* The scenario is over: nothing runs and the ledger shows every chunk completed.
E2EFinished ==
    /\ op = "idle"
    /\ ledgerFile.exists
    /\ \A c \in Chunks : ledgerFile.entries[c].status = "completed"

LifecycleEdges ==
    {<<"absent", "submitted">>,
     <<"submitted", "in_progress">>, <<"submitted", "failed">>,
     <<"in_progress", "completed">>, <<"in_progress", "failed">>,
     <<"in_progress", "expired">>, <<"in_progress", "cancelled">>,
     <<"failed", "submitted">>, <<"expired", "submitted">>,
     <<"cancelled", "submitted">>}

\* C24: every change of the status of a chunk in the ledger file is an edge of
\* the lifecycle table, and an edge back to submitted is made by resubmission
\* only.
C24_StatusFollowsLifecycle ==
    [][\A c \in Chunks :
          ledgerFile'.entries[c].status # ledgerFile.entries[c].status
          => /\ <<ledgerFile.entries[c].status, ledgerFile'.entries[c].status>>
                   \in LifecycleEdges
             /\ ledgerFile.entries[c].status \in FailedStatuses => ctx = "resubmit"]_vars

\* C25: once the status sweep of resume_workflow is over, every tracked chunk of
\* the ledger is in exactly one of the buckets completed, in_progress, failed.
C25_BucketsTotalAndExclusive ==
    (op = "resume" /\ pc \in {"r_dl", "r_save", "r_decide"})
    => \A c \in Tracked(batch_info) :
          Cardinality({b \in {CompletedStatuses, InProgressStatuses, FailedStatuses} :
                          batch_info.entries[c].status \in b}) = 1

\* The chunks that are in progress and not in the list resubmit_failed_batches
\* still has to work through.
InProgressBystanders ==
    {c \in Bucket(batch_info, InProgressStatuses) :
        ctx = "resubmit" /\ c \notin Range(todo)}

\* C26: resubmit_failed_batches uploads and creates jobs for failed chunks
\* only; the ledger entry of a chunk that is in progress stays as it is, in
\* memory and in the file, no job is created for it and the loop never takes
\* it up.
C26_ResubmitLeavesInProgressAlone ==
    [][/\ (ctx = "resubmit" /\ pc = "loop" /\ pc' = "create")
          => batch_info.entries[Head(todo)].status \in FailedStatuses
       /\ \A c \in Chunks :
             (ctx = "resubmit" /\ Len(jobs'[c]) > Len(jobs[c]))
             => c = Head(todo) /\ batch_info.entries[c].status \in FailedStatuses
       /\ \A c \in InProgressBystanders :
             /\ ctx' = "resubmit" => batch_info'.entries[c] = batch_info.entries[c]
             /\ ledgerFile'.entries[c] = ledgerFile.entries[c]
             /\ Len(jobs'[c]) = Len(jobs[c])
             /\ chain'[c] = chain[c]
             /\ todo' # <<>> /\ ctx' = "resubmit" => Head(todo') # c]_vars

C26_Witness ==
    /\ InProgressBystanders # {}
    /\ \E d \in Chunks : Len(chain[d]) = 2 /\ ledgerFile.entries[d].prev # 0

\* resume_workflow is downloading the output of a completed chunk.
ResumeDownloading ==
    op = "resume" /\ ctx = "sweep" /\ pc \in {"dl_retrieve", "dl_content"}

\* C27: when the download of one completed chunk raises during resume, resume
\* goes on (it is still running after the step), and whenever resume ends from
\* its download phase without being killed the ledger file holds the statuses
\* learned in the sweep.
C27_DownloadFailureIsolated ==
    [][(ResumeDownloading /\ crashes' = crashes)
       => /\ op' = "resume"
          /\ op' = "idle"
             => \A c \in Tracked(batch_info) :
                   ledgerFile'.entries[c].status = batch_info.entries[c].status]_vars

\* C28: on every path download_results is entered for a job only when the
\* status last recorded for that job is completed, and when download_results
\* raises before it has the content no result file is written.
C28_DownloadOnlyWhenCompleted ==
    [][/\ pc' = "dl_retrieve"
          => /\ batch_info'.entries[Head(todo')].status = "completed"
             /\ batch_info'.entries[Head(todo')].batch_id = batch_id'
       /\ (pc \in {"dl_retrieve", "dl_content"} /\ faults' > faults)
          => results' = results]_vars

C28_Witness ==
    /\ pc = "dl_retrieve" /\ ctx = "resubmit"
    /\ batch_info.entries[Head(todo)].prev # 0
    /\ \E c \in Chunks : results[c] # 0

\* C29: resume starts no download for a completed chunk whose result file is
\* on disk, and after its download phase the ledger entry of every completed
\* chunk, in memory and in the file, has an output_file and the result file
\* exists.
C29_DownloadIdempotent ==
    [][/\ (op = "resume" /\ pc = "r_dl" /\ pc' = "dl_retrieve")
          => results[Head(todo)] = 0
       /\ (op' = "resume" /\ pc' = "r_decide")
          => \A c \in Bucket(batch_info', CompletedStatuses) :
                /\ batch_info'.entries[c].output_file
                /\ ledgerFile'.entries[c].output_file
                /\ results'[c] # 0]_vars

C29_Witness ==
    /\ op = "resume" /\ pc = "r_decide"
    /\ \E c, d \in Bucket(batch_info, CompletedStatuses) :
          /\ c # d
          /\ results[c] # 0 /\ results[d] # 0
          /\ ledgerFile.entries[c].output_file

\* C30: the content of a chunk file written by a finished planning run is
\* never changed by a later step.
C30_ChunkFilesWriteOnce ==
    [][\A r \in 1..Len(planResults) :
          \A k \in Range(planResults[r].batch_files) :
              planFiles'[k] = planFiles[k]]_allVars

\* C31: while a chunk is monitored, the status the polling loop saw last is
\* the status of the chunk in the ledger file whenever the loop is about to
\* query again, and the step that saw a new status is the step that wrote the
\* file.
C31_StatusChangePersistedBeforeNextQuery ==
    [][/\ (pc' = "monitor" /\ last_status' # "none")
          => /\ ledgerFile'.entries[Head(todo')].status = last_status'
             /\ ledgerFile'.entries[Head(todo')].batch_id = batch_id'
       /\ (pc = "monitor" /\ pc' = "monitor" /\ last_status' # last_status)
          => ledgerWritten']_vars

C31_Witness ==
    /\ pc = "monitor" /\ last_status = "in_progress"
    /\ ledgerFile.entries[Head(todo)].status = "in_progress"
    /\ jobs[Head(todo)][batch_id] = "completed"

C33_GreedyPacking ==
    \A r \in 1..Len(planResults) :
        \A n \in 1..(Len(planResults[r].batch_files) - 1) :
            LET this == planResults[r].files[planResults[r].batch_files[n]]
                next == planResults[r].files[planResults[r].batch_files[n + 1]]
            IN  SumTokens(this) + Head(next).tokens > ceiling

C33_Witness ==
    /\ Len(planResults) >= 1
    /\ Len(planResults[1].batch_files) >= 2
    /\ Len(planResults[1].files[1]) >= 2
    /\ SumTokens(planResults[1].files[1]) < ceiling

\* C34: a finished planner run has no empty chunk file, its files are numbered
\* 1..n in the order written, and for no documents it returns no file and a
\* token total of 0.
C34_NoEmptyChunkNoGap ==
    \A r \in 1..Len(planResults) :
        /\ \A k \in Range(planResults[r].batch_files) : planResults[r].files[k] # <<>>
        /\ planResults[r].batch_files = [n \in 1..Len(planResults[r].batch_files) |-> n]
        /\ docs = <<>>
           => planResults[r].batch_files = <<>> /\ planResults[r].total = 0
        /\ docs # <<>> => planResults[r].batch_files # <<>>

C34_Witness ==
    /\ docs = <<>>
    /\ Len(planResults) >= 1
    /\ planResults[1].batch_files = <<>>

\* What the validator that made the report returns for a row.
VerdictOf(out) ==
    IF report.by = "phase"
    THEN validate_single_output_phase(out) ELSE validate_single_output(out)

RECURSIVE SumCounts(_, _)
SumCounts(summary, types) ==
    IF types = {} THEN 0
    ELSE LET t == CHOOSE x \in types : TRUE
         IN  summary[t] + SumCounts(summary, types \ {t})

RECURSIVE SumErrors(_)
SumErrors(outs) ==
    IF outs = <<>> THEN 0
    ELSE Len(VerdictOf(Head(outs)).errors) + SumErrors(Tail(outs))

\* C35: in the report of validate_batch_results, valid_speeches +
\* invalid_speeches = total_speeches = the number of rows, invalid_speeches is
\* the number of rows with a non-empty error list, and the counts of
\* error_summary add up to the number of error strings of all rows.
C35_ReportConsistent ==
    report.by # "none"
    => /\ report.r.total_speeches = Len(batch_outputs)
       /\ report.r.valid_speeches + report.r.invalid_speeches = report.r.total_speeches
       /\ report.r.invalid_speeches =
             Cardinality({k \in 1..Len(batch_outputs) :
                             VerdictOf(batch_outputs[k]).errors # <<>>})
       /\ SumCounts(report.r.error_summary, DOMAIN report.r.error_summary)
             = SumErrors(batch_outputs)

C35_Witness ==
    /\ report.by = "phase"
    /\ report.r.valid_speeches = 1 /\ report.r.invalid_speeches = 2
    /\ \E t \in DOMAIN report.r.error_summary : report.r.error_summary[t] >= 3

\* C36: every chunk entry of the ledger file carries a batch_id.
C36_EveryEntryHasJobId ==
    ledgerFile.exists
    => \A c \in Tracked(ledgerFile) : ledgerFile.entries[c].batch_id # 0

\* C37: when a remote call raises in process_all_chunks for a chunk whose job
\* is recorded in the ledger file, the entry of the chunk in the file still
\* holds that job id and the status it had.
C37_ErrorKeepsJobId ==
    [][(ctx = "all" /\ todo # <<>> /\ batch_id # 0 /\ faults' > faults
        /\ ledgerFile.entries[Head(todo)].batch_id = batch_id)
       => /\ ledgerFile'.entries[Head(todo)].batch_id = batch_id
          /\ ledgerFile'.entries[Head(todo)].status
                = ledgerFile.entries[Head(todo)].status]_vars

LiveOrCompleted == {"submitted", "validating", "in_progress", "finalizing", "completed"}

\* C38: submit_all_chunks and submit_single_chunk create no job for a chunk
\* whose entry in the ledger file is submitted, validating, in_progress,
\* finalizing or completed, and when they replace a recorded job id the new
\* entry keeps the old id as previous_batch_id.
C38_NoSecondJobForLiveChunk ==
    [][\A c \in Chunks :
          op \in {"submit_all", "single"}
          => /\ Len(jobs'[c]) > Len(jobs[c])
                => ledgerFile.entries[c].status \notin LiveOrCompleted
             /\ (ledgerFile.entries[c].batch_id # 0
                 /\ ledgerFile'.entries[c].batch_id # 0
                 /\ ledgerFile'.entries[c].batch_id # ledgerFile.entries[c].batch_id)
                => ledgerFile'.entries[c].prev = ledgerFile.entries[c].batch_id]_vars

\* Every chunk file on disk is completed in the ledger file and the merge ran.
AllDone ==
    /\ ledgerFile.exists
    /\ chunkFiles # {}
    /\ \A c \in chunkFiles : ledgerFile.entries[c].status = "completed"
    /\ merged # NoTable

\* C39: in a progress run, eventually every chunk file on disk has ledger
\* status completed and the merge has run.
C39_ResumeMakesProgress == <>AllDone

\* C40: the table the merge step builds has rows of chunk c only when the
\* ledger file records c as completed and the result file read for c is the
\* output of the job id the ledger file records for c.
C40_MergeReadsCurrentCompletedOnly ==
    [][(pc = "process_results" /\ merged' # merged)
       => \A c \in Chunks :
             merged'[c] > 0
             => /\ ledgerFile.entries[c].status = "completed"
                /\ ledgerFile.entries[c].batch_id = merged'[c]]_vars

====
